---- MODULE Spec2Model ----
(***************************************************************************)
(* Model of DensLowRank/model/continuous/low_rank.py: the low-rank block   *)
(* estimator our_algo (Algorithm 1), the univariate estimator our_algo_3   *)
(* (Algorithm 3) and the bivariate estimator our_algo_2 (Algorithm 2).     *)
(*                                                                         *)
(* Numbers.  Matrix entries and sample values are integers counting        *)
(* quarters (k stands for k/Den).  Real arithmetic is exact: comparisons   *)
(* with n^(1/3) and L^(1/2) are taken to the sixth power, logarithms come  *)
(* from tables of their leading digits, and the entries of a truncated SVD *)
(* are kept in the field Q(sqrt(delta)) they live in.                      *)
(***************************************************************************)
EXTENDS Integers, Sequences, FiniteSets, TLC

VARIABLES args, globals, pc, res, ret, query, val

vars == <<args, globals, pc, res, ret, query, val>>

Den == 2^2

RECURSIVE SumOver(_, _)
SumOver(f, S) ==
  IF S = {} THEN 0
  ELSE LET e == CHOOSE e \in S : TRUE IN f[e] + SumOver(f, S \ {e})

Min2(a, b) == IF a <= b THEN a ELSE b

Max2(a, b) == IF a >= b THEN a ELSE b

Undefined == <<>>

\* the function f itself, tabulated over its domain once
Tabulate(f) == f @@ <<>>

NoValue == [tag |-> "none"]

(***************************************************************************)
(* Bounds of the inputs.                                                   *)
(***************************************************************************)
MaxN == 6

MaxD == 4

Dims == {1, 2}

EntryVals == {0, 1, 4}

MarginVals == {0, 2, 4}

\* alpha, cstar, Cbar in hundredths.
ParamSets ==
  { [alpha |-> 100, cstar |-> 100, Cbar |-> 100] }

\* The module-level names d1, d2 that our_algo reads: unset, or a shape
\* left there by earlier code.
GlobalDims == {Undefined, <<1, 2>>, <<2, 2>>}

Matrix(r, c, f) == [rows |-> r, cols |-> c, at |-> f]

Cells(r, c) == (1..r) \X (1..c)

(***************************************************************************)
(* Numbers of Q(sqrt(delta)): [rat, irr] is (rat + irr/sqrt(delta))/(2*Den)*)
(***************************************************************************)
Num(a, b) == [rat |-> a, irr |-> b]

NumOfEntry(k) == Num(2 * k, 0)

NumAdd(x, y) == Num(x.rat + y.rat, x.irr + y.irr)

NumScale(k, x) == Num(k * x.rat, k * x.irr)

\* sign of a + b/sqrt(delta), delta > 0
NumSign(x, delta) ==
  LET a == x.rat
      b == x.irr
      a2d == a * a * delta
      b2 == b * b
  IN  IF b = 0 THEN (IF a > 0 THEN 1 ELSE IF a < 0 THEN -1 ELSE 0)
      ELSE IF a = 0 THEN (IF b > 0 THEN 1 ELSE -1)
      ELSE IF a > 0 /\ b > 0 THEN 1
      ELSE IF a < 0 /\ b < 0 THEN -1
      ELSE IF a > 0 THEN (IF a2d > b2 THEN 1 ELSE IF a2d < b2 THEN -1 ELSE 0)
      ELSE (IF a2d > b2 THEN -1 ELSE IF a2d < b2 THEN 1 ELSE 0)

NumEq(x, y, delta) == NumSign(Num(x.rat - y.rat, x.irr - y.irr), delta) = 0

RECURSIVE NumSum(_, _)
NumSum(f, S) ==
  IF S = {} THEN Num(0, 0)
  ELSE LET e == CHOOSE e \in S : TRUE IN NumAdd(f[e], NumSum(f, S \ {e}))

(***************************************************************************)
(* ALGORITHM 1: our_algo(n, d, Y1, Y2, alpha, cstar, Cbar)                 *)
(***************************************************************************)
\* np.log(d) in thousandths (floor), d = 1..9
np_log == <<0, 693, 1098, 1386, 1609, 1791, 1945, 2079, 2197>>

\* np.log(d)/np.log(2) in thousandths (floor), d = 1..9
np_log2 == <<0, 1000, 1584, 2000, 2321, 2584, 2807, 3000, 3169>>

\* np.log(d)**2 in hundred-thousandths (floor), d = 1..9
np_log_sq == <<0, 48045, 120694, 192181, 259029, 321040, 378656, 432407, 482779>>

\* line 99: n <= d*np.log(d)
DegenerateRegime(n, d) == 1000 * n <= d * np_log[d]

\* the sum without the halving
AverageUnhalved(Y1, Y2) ==
  [tag |-> "ok", rows |-> Y1.rows, cols |-> Y1.cols,
   num |-> [c \in Cells(Y1.rows, Y1.cols) |-> Num(Y1.at[c] + Y2.at[c], 0)],
   den |-> Num(Den, 0), delta |-> 1]

\* line 100: (Y1+Y2)/2
Average(Y1, Y2) ==
  [tag |-> "ok", rows |-> Y1.rows, cols |-> Y1.cols,
   num |-> [c \in Cells(Y1.rows, Y1.cols) |-> Num(Y1.at[c] + Y2.at[c], 0)],
   den |-> Num(2 * Den, 0), delta |-> 1]

\* line 104: T = int(np.log(d)/np.log(2))
RECURSIVE Levels(_)
Levels(d) == IF d < 2 THEN 0 ELSE 1 + Levels(d \div 2)

\* line 105: p = np.sum(Y1, axis=1)
RowSums(Y) ==
  Tabulate([i \in 1..Y.rows |-> SumOver([j \in 1..Y.cols |-> Y.at[<<i, j>>]], 1..Y.cols)])

\* line 106: q = np.sum(Y1, axis=0)
ColSums(Y) ==
  Tabulate([j \in 1..Y.cols |-> SumOver([i \in 1..Y.rows |-> Y.at[<<i, j>>]], 1..Y.rows)])

\* lines 109-112: (p <= 2**(-t)) & (p > 2**(-t-1)) for t < T, p <= 2**(-t) for t = T
InBand(p, t, T) ==
  IF t < T THEN p * 2^t <= Den /\ p * 2^(t + 1) > Den
  ELSE p * 2^t <= Den

\* lines 110, 112, 116, 118: np.argwhere of the band over a marginal vector
Bucket(p, t, T) == {i \in DOMAIN p : InBand(p[i], t, T)}

\* lines 120-125: M = Y2 restricted to I x J; its sum and squared Frobenius norm
BlockSum(Y2, I, J) == SumOver([c \in I \X J |-> Y2.at[c]], I \X J)

BlockFrob(Y2, I, J) == SumOver([c \in I \X J |-> Y2.at[c] * Y2.at[c]], I \X J)

\* line 127: np.sum(M) < 2*Cbar*alpha*np.log(d)/(n*np.log(2))
EnergyBelow(a, s) ==
  s * a.n * 10000000 < 2 * a.Cbar * a.alpha * np_log2[a.d] * Den

\* line 133: tau**2 = np.log(d)**2 * cstar * 2**(1-min(t,u)) / n, as the
\* fraction TauNum/TauDen of a sixteenth (the unit of a squared entry)
TauNum(a) == np_log_sq[a.d] * a.cstar

TauDen(a, m) == 312500 * 2^m * a.n

\* the sign of a/c - d/b for c, b > 0, by continued fractions (no product
\* leaves the 32-bit range)
RECURSIVE CmpFrac(_, _, _, _)
CmpFrac(a, c, d, b) ==
  LET q1 == a \div c
      q2 == d \div b
      r1 == a % c
      r2 == d % b
  IN  IF q1 > q2 THEN 1
      ELSE IF q1 < q2 THEN -1
      ELSE IF r1 = 0 /\ r2 = 0 THEN 0
      ELSE IF r1 = 0 THEN -1
      ELSE IF r2 = 0 THEN 1
      ELSE -CmpFrac(c, r1, b, r2)

ISqrt(x) == CHOOSE e \in 0..64 : e * e <= x /\ x < (e + 1) * (e + 1)

\* the sign of sqrt(delta) - X/Q for X >= 0, Q > 0
CmpSqrt(delta, X, Q) ==
  LET e == ISqrt(delta)
      g == delta - e * e
      r == X - e * Q
  IN  IF X < e * Q THEN 1
      ELSE IF X >= (e + 1) * Q THEN -1
      ELSE IF g = 0 THEN (IF r = 0 THEN 0 ELSE -1)
      ELSE IF r = 0 THEN 1
      ELSE CmpFrac(g * Q, r, 2 * e * Q + r, Q)

\* determinant of a 2 x 2 block
BlockDet(Y2, I, J) ==
  LET i1 == CHOOSE i \in I : \A k \in I : i <= k
      i2 == CHOOSE i \in I : \A k \in I : i >= k
      j1 == CHOOSE j \in J : \A k \in J : j <= k
      j2 == CHOOSE j \in J : \A k \in J : j >= k
  IN  Y2.at[<<i1, j1>>] * Y2.at[<<i2, j2>>] - Y2.at[<<i1, j2>>] * Y2.at[<<i2, j1>>]

\* the squared singular values of a 2 x 2 block are (F +- sqrt(delta))/2
BlockDelta(Y2, I, J) ==
  LET F == BlockFrob(Y2, I, J)
      D == BlockDet(Y2, I, J)
  IN  F * F - 4 * D * D

\* lines 134-135: l = len(s[s >= tau]), s the singular values of M
\* (min(len(I), len(J)) of them, in decreasing order)
Retained(a, I, J, m) ==
  LET F == BlockFrob(a.Y2, I, J)
  IN  IF Cardinality(I) = 1 \/ Cardinality(J) = 1
      THEN (IF F * TauDen(a, m) >= TauNum(a) THEN 1 ELSE 0)
      ELSE LET delta == BlockDelta(a.Y2, I, J)
               X == 2 * TauNum(a) - F * TauDen(a, m)
               top == X <= 0 \/ CmpSqrt(delta, X, TauDen(a, m)) >= 0
               low == X <= 0 /\ CmpSqrt(delta, -X, TauDen(a, m)) <= 0
           IN  IF low THEN 2 ELSE IF top THEN 1 ELSE 0

\* lines 127-137: what the (t,u) iteration does with its block
BlockKind(a, I, J, m) ==
  IF EnergyBelow(a, BlockSum(a.Y2, I, J)) THEN "copy"
  ELSE LET l == Retained(a, I, J, m)
       IN  IF l = 0 THEN "zero"
           ELSE IF l = Min2(Cardinality(I), Cardinality(J)) THEN "full"
           ELSE "rank1"

\* line 137: H = U[:,:1]*s[:1] @ Vh[:1,:] for a 2 x 2 block of rank 2, which is
\* (M + B/sqrt(delta))/2 with B = 2*M*(M^T M) - F*M
RankOne(Y2, I, J, c) ==
  LET F == BlockFrob(Y2, I, J)
      A(k, j) == SumOver([r \in I |-> Y2.at[<<r, k>>] * Y2.at[<<r, j>>]], I)
      MA == SumOver([k \in J |-> Y2.at[<<c[1], k>>] * A(k, c[2])], J)
  IN  Num(Y2.at[c], 2 * MA - F * Y2.at[c])

Raise(e) == [tag |-> e]

\* the (t,u) pairs in the order of the loops of lines 108 and 114
LoopPairs(T) == (0..T) \X (0..T)

LastPair(W) ==
  CHOOSE w \in W : \A v \in W : v[1] < w[1] \/ (v[1] = w[1] /\ v[2] <= w[2])

\* lines 108-118: the row buckets I_0..I_T (of p) or column buckets J_0..J_T (of q)
Buckets(p, T) == Tabulate([t \in 0..T |-> Bucket(p, t, T)])

\* the iterations that write cell c
Writers(I, J, T, c) == {tu \in LoopPairs(T) : c[1] \in I[tu[1]] /\ c[2] \in J[tu[2]]}

\* the cells of Y2 that some iteration writes (lines 130 and 140)
Written(a) ==
  LET T == Levels(a.d)
      I == Buckets(RowSums(a.Y1), T)
      J == Buckets(ColSums(a.Y1), T)
  IN  {c \in Cells(a.Y2.rows, a.Y2.cols) : Writers(I, J, T, c) # {}}

\* lines 130, 140: res[I[i],J[j]] = ... outside the shape (d1, d2) of res
IndexOutside(a, g) == \E c \in Written(a) : c[1] > g[1] \/ c[2] > g[2]

\* lines 108-140: what each (t,u) iteration does; an iteration with an empty
\* bucket writes nothing
BlockKinds(a) ==
  LET T == Levels(a.d)
      I == Buckets(RowSums(a.Y1), T)
      J == Buckets(ColSums(a.Y1), T)
  IN  Tabulate([tu \in LoopPairs(T) |->
                  IF I[tu[1]] = {} \/ J[tu[2]] = {} THEN "empty"
                  ELSE BlockKind(a, I[tu[1]], J[tu[2]], Min2(tu[1], tu[2]))])

\* a copy branch that leaves the cell at the zero res was created with
CopyValueSkipped(Y2, c) == Num(0, 0)

\* lines 128-130: res[I[i],J[j]] = Y2[I[i],J[j]]
CopyValue(Y2, c) == NumOfEntry(Y2.at[c])

\* lines 103-140: res after the two loops, of the shape (d1, d2) read from the
\* module's globals g
FillBlocks(a, g) ==
  LET T == Levels(a.d)
      I == Buckets(RowSums(a.Y1), T)
      J == Buckets(ColSums(a.Y1), T)
      kind == BlockKinds(a)
      Value(c) == LET W == Writers(I, J, T, c)
                      w == LastPair(W)
                  IN  IF W = {} THEN Num(0, 0)
                      ELSE IF kind[w] = "copy" THEN CopyValue(a.Y2, c)
                      ELSE IF kind[w] = "full" THEN NumOfEntry(a.Y2.at[c])
                      ELSE IF kind[w] = "zero" THEN Num(0, 0)
                      ELSE RankOne(a.Y2, I[w[1]], J[w[2]], c)
      Partial == {tu \in LoopPairs(T) : kind[tu] = "rank1"}
  IN  [tag |-> "ok", rows |-> g[1], cols |-> g[2],
       num |-> [c \in Cells(g[1], g[2]) |->
                  IF c[1] <= a.Y2.rows /\ c[2] <= a.Y2.cols THEN Value(c) ELSE Num(0, 0)],
       den |-> Num(2 * Den, 0),
       delta |-> IF Partial = {} THEN 1
                 ELSE LET tu == LastPair(Partial)
                      IN  BlockDelta(a.Y2, I[tu[1]], J[tu[2]])]

\* a return of res as assembled
NormalizeOmitted(r) == r

\* line 142: res/np.sum(res)
Normalize(r) == [r EXCEPT !.den = NumSum(r.num, Cells(r.rows, r.cols))]

\* lines 99-142
our_algo(a, g) ==
  IF a.d = 0 THEN (IF g = Undefined THEN Raise("NameError") ELSE Raise("OverflowError"))
  ELSE IF DegenerateRegime(a.n, a.d) THEN Average(a.Y1, a.Y2)
  ELSE IF g = Undefined THEN Raise("NameError")
  ELSE IF IndexOutside(a, g) THEN Raise("IndexError")
  ELSE Normalize(FillBlocks(a, g))

(***************************************************************************)
(* our_algo as a state machine                                             *)
(***************************************************************************)
InitAlgo1 ==
  /\ \E n \in 1..MaxN, d \in 1..MaxD, r \in Dims, c \in Dims, ps \in ParamSets :
       \E y1 \in [Cells(r, c) -> MarginVals], y2 \in [Cells(r, c) -> EntryVals] :
         args = [n |-> n, d |-> d, Y1 |-> Matrix(r, c, y1), Y2 |-> Matrix(r, c, y2),
                 alpha |-> ps.alpha, cstar |-> ps.cstar, Cbar |-> ps.Cbar]
  /\ \E g \in GlobalDims : globals = [dims |-> g, h |-> NoValue]
  /\ pc = "our_algo"
  /\ res = NoValue
  /\ ret = NoValue
  /\ query = NoValue
  /\ val = NoValue

\* lines 99-100
ReturnAverage ==
  /\ pc = "our_algo"
  /\ DegenerateRegime(args.n, args.d)
  /\ ret' = Average(args.Y1, args.Y2)
  /\ pc' = "returned"
  /\ UNCHANGED <<args, globals, res, query, val>>

\* line 103 with d1, d2 unset
RaiseNameError ==
  /\ pc = "our_algo"
  /\ ~DegenerateRegime(args.n, args.d)
  /\ globals.dims = Undefined
  /\ ret' = Raise("NameError")
  /\ pc' = "raised"
  /\ UNCHANGED <<args, globals, res, query, val>>

\* lines 103-140, an index outside res
RaiseIndexError ==
  /\ pc = "our_algo"
  /\ ~DegenerateRegime(args.n, args.d)
  /\ globals.dims # Undefined
  /\ IndexOutside(args, globals.dims)
  /\ ret' = Raise("IndexError")
  /\ pc' = "raised"
  /\ UNCHANGED <<args, globals, res, query, val>>

\* lines 103-142: res is the matrix the loops assembled, ret the one returned
ReturnNormalized ==
  /\ pc = "our_algo"
  /\ ~DegenerateRegime(args.n, args.d)
  /\ globals.dims # Undefined
  /\ ~IndexOutside(args, globals.dims)
  /\ res' = FillBlocks(args, globals.dims)
  /\ ret' = Normalize(res')
  /\ pc' = "returned"
  /\ UNCHANGED <<args, globals, query, val>>

NextAlgo1 ==
  \/ ReturnAverage
  \/ RaiseNameError
  \/ RaiseIndexError
  \/ ReturnNormalized

SpecAlgo1 == InitAlgo1 /\ [][NextAlgo1]_vars

(***************************************************************************)
(* Properties of our_algo                                                  *)
(***************************************************************************)
\* our_algo has returned from the block path (lines 102-142)
BlockPathReturned == pc = "returned" /\ res # NoValue

\* np.sum(res) of the assembled matrix
AssembledTotal == NumSum(res.num, Cells(res.rows, res.cols))

TotalIsZero == NumSign(AssembledTotal, res.delta) = 0

\* the kinds of the blocks of all (t,u) iterations of the two loops
KindsUsed == {BlockKinds(args)[tu] : tu \in LoopPairs(Levels(args.d))}

\* C1: in the non-degenerate regime, when the assembled total is non-zero,
\* the entries of the matrix our_algo returns sum to 1.
C1_NormalizedSumsToOne ==
  (BlockPathReturned /\ ~TotalIsZero) =>
    /\ NumSign(ret.den, ret.delta) # 0
    /\ NumEq(NumSum(ret.num, Cells(ret.rows, ret.cols)), ret.den, ret.delta)

\* a return whose matrix mixes a copied block with a block truncated by the
\* SVD, with a non-zero total
C1_Witness ==
  /\ BlockPathReturned
  /\ ~TotalIsZero
  /\ "copy" \in KindsUsed
  /\ "zero" \in KindsUsed

\* C2: the T+1 row buckets and the T+1 column buckets each hold every index
\* exactly once, so every cell of the result is written by exactly one (t,u)
\* iteration.
C2_BucketsPartition ==
  BlockPathReturned =>
    LET T == Levels(args.d)
        I == Buckets(RowSums(args.Y1), T)
        J == Buckets(ColSums(args.Y1), T)
    IN  /\ \A i \in 1..args.Y1.rows : Cardinality({t \in 0..T : i \in I[t]}) = 1
        /\ \A j \in 1..args.Y1.cols : Cardinality({u \in 0..T : j \in J[u]}) = 1
        /\ \A c \in Cells(args.Y2.rows, args.Y2.cols) :
              Cardinality(Writers(I, J, T, c)) = 1

\* the cells of the blocks whose mass is below the energy threshold
CopiedCells ==
  LET T == Levels(args.d)
      I == Buckets(RowSums(args.Y1), T)
      J == Buckets(ColSums(args.Y1), T)
  IN  UNION {I[tu[1]] \X J[tu[2]] :
               tu \in {w \in LoopPairs(T) :
                         EnergyBelow(args, BlockSum(args.Y2, I[w[1]], J[w[2]]))}}

\* C3 as stated: the returned entries at the cells of a block below the
\* energy threshold equal the entries of Y2 at those cells.
C3_CopiedVerbatim ==
  BlockPathReturned =>
    \A c \in CopiedCells :
      /\ NumSign(ret.den, ret.delta) # 0
      /\ NumEq(NumScale(Den, ret.num[c]), NumScale(args.Y2.at[c], ret.den), ret.delta)

\* C3, amended: at the cells of a block below the energy threshold the
\* assembled matrix holds the entries of Y2, and the returned entry is that
\* entry divided by the total of the assembled matrix.
C3_CopiedThenNormalized ==
  BlockPathReturned =>
    \A c \in CopiedCells :
      /\ res.num[c] = NumOfEntry(args.Y2.at[c])
      /\ ret.num[c] = res.num[c]
      /\ ret.den = AssembledTotal

\* a copied non-zero cell next to a block kept by the SVD, the total not 1
C3_Witness ==
  /\ BlockPathReturned
  /\ \E c \in CopiedCells : args.Y2.at[c] # 0
  /\ "full" \in KindsUsed
  /\ ~NumEq(AssembledTotal, Num(2 * Den, 0), res.delta)

\* C4: with n <= d*ln(d) our_algo returns the elementwise (Y1+Y2)/2 whatever
\* the module's globals hold; with n > d*ln(d) it takes the block path.
C4_DegenerateFallback ==
  pc # "our_algo" =>
    IF 1000 * args.n <= args.d * np_log[args.d]
    THEN /\ pc = "returned"
         /\ res = NoValue
         /\ ret.rows = args.Y1.rows /\ ret.cols = args.Y1.cols
         /\ \A c \in Cells(args.Y1.rows, args.Y1.cols) :
               /\ ret.num[c].irr = 0
               /\ ret.num[c].rat * 2 * Den = (args.Y1.at[c] + args.Y2.at[c]) * ret.den.rat
         /\ ret.den.rat # 0 /\ ret.den.irr = 0
    ELSE pc = "raised" \/ res # NoValue

\* the average returned while d1, d2 are unset, Y1 and Y2 differing
C4_Witness ==
  /\ pc = "returned"
  /\ res = NoValue
  /\ globals.dims = Undefined
  /\ \E c \in Cells(args.Y1.rows, args.Y1.cols) :
        args.Y1.at[c] # args.Y2.at[c] /\ ret.num[c].rat # 0

\* C8: a zero assembled total makes our_algo fail with DegenerateInput, so no
\* matrix is returned from a zero total (its entries would be NaN or Inf).
C8_ZeroTotalRaises ==
  (pc # "our_algo" /\ res # NoValue /\ TotalIsZero) =>
    (pc = "raised" /\ ret = Raise("DegenerateInput"))

(***************************************************************************)
(* ALGORITHM 3: our_algo_3(n, Z, L)                                        *)
(* Z is a sequence of sample values in quarters; Python's Z[k] is Z[k+1].  *)
(***************************************************************************)
MaxLen == 6

SampleVals == {-2, 1, 3, 4}

Smoothness == {1, 4}

QueryVals == -2..5

RECURSIVE SeqMin(_)
SeqMin(z) == IF Len(z) = 1 THEN z[1] ELSE Min2(z[1], SeqMin(Tail(z)))

RECURSIVE SeqMax(_)
SeqMax(z) == IF Len(z) = 1 THEN z[1] ELSE Max2(z[1], SeqMax(Tail(z)))

\* Python's Z[lo:hi] as the set of its (0-based) indices
Slice(lo, hi) == lo..(hi - 1)

\* lines 185-186: the indices of Z[:int(n/2)]
CalibrationSlice(n) == Slice(0, n \div 2)

\* line 205: the indices of Z[int(n/2)+1:]
EstimationSlice(n) == Slice((n \div 2) + 1, n)

\* the values of Z at a set of 0-based indices, as a sequence (in any order)
RECURSIVE Take(_, _)
Take(z, S) ==
  IF S = {} THEN <<>>
  ELSE LET k == CHOOSE k \in S : TRUE IN <<z[k + 1]>> \o Take(z, S \ {k})

\* line 188: R - r < n**(-1/3) * L**(-1/2), with a = R - r in quarters
Narrow3(a, n, L) == a^6 * n^2 * L^3 < Den^6

\* lines 194, 289-290: math.floor((R-r) * n**(1/3) * L**(1/2))
FloorBins(a, n, L) ==
  CHOOSE m \in 0..(a * n * L) :
    /\ (m * Den)^6 <= a^6 * n^2 * L^3
    /\ ((m + 1) * Den)^6 > a^6 * n^2 * L^3

\* lines 195, 292-293: E = np.arange(-math.floor(r/H), math.ceil((1-r)/H - 1)),
\* with H = a/(m*Den): the pair <<first offset, one past the last offset>>
Offsets(r, a, m) ==
  <<-((r * m) \div a), -((-((Den - r) * m)) \div a) - 1>>

\* lines 202-205: a <= k < b for a = r + i*H, b = r + (i+1)*H (all times m)
InBin(v, r, a, m, i) == r * m + i * a <= v * m /\ v * m < r * m + (i + 1) * a

\* line 205: N[c] = the number of estimation samples in the bin of offset i
BinCount(cl, i) ==
  Cardinality({k \in EstimationSlice(cl.n) : InBin(cl.Z[k + 1], cl.r, cl.a, cl.m, i)})

\* line 207: i*H <= x <= (i+1)*H
Selected(x, a, m, i) == i * a <= x * m /\ x * m <= (i + 1) * a

Rational(p, q) == [tag |-> "num", num |-> p, den |-> q]

Inf == [tag |-> "inf"]

NaN == [tag |-> "nan"]

\* line 208: N[i] while N[0..c] are filled: Python indexing of an array of
\* length len by the offset i (negative offsets count from the end)
ReadN(cl, len, c, i) ==
  LET idx == IF i < 0 THEN len + i ELSE i
  IN  IF idx > c THEN 0 ELSE BinCount(cl, cl.lo + idx)

\* lines 197-210: the closure f_1 returned by the histogram branch
f_1(cl, x) ==
  LET len == Max2(cl.hi - cl.lo, 0)
      Hits == {c \in 0..(len - 1) : Selected(x, cl.a, cl.m, cl.lo + c)}
  IN  IF \E c \in Hits : cl.lo + c >= len \/ cl.lo + c < -len
      THEN Raise("IndexError")
      ELSE Rational(SumOver([c \in Hits |-> ReadN(cl, len, c, cl.lo + c)], Hits) * cl.m * Den,
                    cl.a)

\* line 190: lambda x : 1/(R-r) if (x<=r and x>=R) else 0
Uniform(cl, x) ==
  IF x <= cl.r /\ x >= cl.r + cl.a
  THEN (IF cl.a = 0 THEN Inf ELSE Rational(Den, cl.a))
  ELSE Rational(0, 1)

\* lines 184-212
our_algo_3(Z, L) ==
  LET n == Len(Z)
      cal == Take(Z, CalibrationSlice(n))
      r == SeqMin(cal)
      R == SeqMax(cal)
      m == FloorBins(R - r, n, L)
      E == Offsets(r, R - r, m)
  IN  IF cal = <<>> THEN Raise("ValueError")
      ELSE IF Narrow3(R - r, n, L) THEN [tag |-> "uniform", r |-> r, a |-> R - r]
      ELSE [tag |-> "hist", r |-> r, a |-> R - r, m |-> m, lo |-> E[1], hi |-> E[2],
            Z |-> Z, n |-> n]

\* a call of the function our_algo_3 returned
Apply3(cl, x) == IF cl.tag = "uniform" THEN Uniform(cl, x) ELSE f_1(cl, x)

InitAlgo3 ==
  /\ \E n \in 1..MaxLen, L \in Smoothness :
       \E Z \in [1..n -> SampleVals] : args = [Z |-> Z, L |-> L]
  /\ globals = [dims |-> Undefined, h |-> NoValue]
  /\ pc = "our_algo_3"
  /\ res = NoValue
  /\ ret = NoValue
  /\ query = NoValue
  /\ val = NoValue

\* lines 185-186 on an empty calibration half
RaiseValueError ==
  /\ pc = "our_algo_3"
  /\ our_algo_3(args.Z, args.L).tag = "ValueError"
  /\ ret' = our_algo_3(args.Z, args.L)
  /\ pc' = "raised"
  /\ UNCHANGED <<args, globals, res, query, val>>

\* lines 188-190
ReturnUniform ==
  /\ pc = "our_algo_3"
  /\ our_algo_3(args.Z, args.L).tag = "uniform"
  /\ ret' = our_algo_3(args.Z, args.L)
  /\ pc' = "returned"
  /\ UNCHANGED <<args, globals, res, query, val>>

\* lines 192-212
ReturnHistogram ==
  /\ pc = "our_algo_3"
  /\ our_algo_3(args.Z, args.L).tag = "hist"
  /\ ret' = our_algo_3(args.Z, args.L)
  /\ pc' = "returned"
  /\ UNCHANGED <<args, globals, res, query, val>>

\* the caller evaluates the returned density at a point
Evaluate3 ==
  /\ pc = "returned"
  /\ \E x \in QueryVals :
       /\ query' = [x |-> x]
       /\ val' = Apply3(ret, x)
  /\ pc' = "evaluated"
  /\ UNCHANGED <<args, globals, res, ret>>

NextAlgo3 ==
  \/ RaiseValueError
  \/ ReturnUniform
  \/ ReturnHistogram
  \/ Evaluate3

SpecAlgo3 == InitAlgo3 /\ [][NextAlgo3]_vars

(***************************************************************************)
(* Properties of our_algo_3                                                *)
(***************************************************************************)
\* the offsets of the bins of the returned grid that hold the value v
BinsOf(cl, v) == {i \in cl.lo..(cl.hi - 1) : InBin(v, cl.r, cl.a, cl.m, i)}

\* C5: every value v with r <= v <= R lies in exactly one bin
\* [r + i*H, r + (i+1)*H), i in E, of the grid our_algo_3 builds.
C5_GridCoversSupport ==
  (pc = "returned" /\ ret.tag = "hist") =>
    \A v \in ret.r..(ret.r + ret.a) : Cardinality(BinsOf(ret, v)) = 1

\* C9: for a query point x inside a bin of the grid, f_1(x) is the count of
\* the estimation samples in that bin divided by H, and nothing else.
C9_EvaluatesOwnBin ==
  (pc = "evaluated" /\ ret.tag = "hist") =>
    \A i \in BinsOf(ret, query.x) :
      /\ val.tag = "num"
      /\ val.num * ret.a = BinCount(ret, i) * ret.m * Den * val.den

(***************************************************************************)
(* ALGORITHM 2: our_algo_2(n, X, alpha, L, C, Cbar, cstar)                 *)
(* X is a sequence of pairs of sample values in quarters, n = len(X).      *)
(***************************************************************************)
MaxSamples == 9

PairVals == {<<0, 2>>, <<8, 0>>, <<8, 10>>}

QueryPairs == {<<0, 2>>, <<8, 0>>, <<8, 10>>, <<9, 1>>}

\* the constants of the script's call, in hundredths (C in thousandths)
ScriptParams == [alpha |-> 10, cstar |-> 1, Cbar |-> 50, C |-> 5, L |-> 1]

Column(X, k) == [i \in 1..Len(X) |-> X[i][k]]

\* lines 272, 282: the indices of X[int(n/2+1):]
DelegatedSlice(n) == Slice((n \div 2) + 1, n)

\* a first quarter that starts at the middle sample
N1SliceFromMiddle(n) == Slice(n \div 2, (3 * n) \div 4)

\* line 306: range(int(n/2)+1, int(3*n/4))
N1Slice(n) == Slice((n \div 2) + 1, (3 * n) \div 4)

\* line 307: range(int(3*n/4), n)
N2Slice(n) == Slice((3 * n) \div 4, n)

\* X[lo:], in order
Suffix(z, lo) == [i \in 1..Max2(Len(z) - lo, 0) |-> z[lo + i]]

\* lines 270, 280: R - r < n**(1/3) * L**(-1/2), with a = R - r in quarters
Narrow2(a, n, L) == a^6 * L^3 < Den^6 * n^2

\* lines 264-265: global h; h = C/(n**(-1/3)*np.sqrt(L)), kept as its operands
Bandwidth(a) == [tag |-> "h", C |-> a.C, n |-> Len(a.X), L |-> a.L]

\* lines 267-268, 277-278: [r, R - r] of an axis over the calibration half
Support(X, k) ==
  LET cal == Take(Column(X, k), CalibrationSlice(Len(X)))
  IN  [r |-> SeqMin(cal), a |-> SeqMax(cal) - SeqMin(cal)]

\* which of the branches of lines 270, 280, 287 a call takes
Branch2(a) ==
  LET n == Len(a.X)
  IN  IF CalibrationSlice(n) = {} THEN "ValueError"
      ELSE IF Narrow2(Support(a.X, 1).a, n, a.L) THEN "c1"
      ELSE IF Narrow2(Support(a.X, 2).a, n, a.L) THEN "c2"
      ELSE "c3"

\* lines 272-274, 282-284: the lambda over g = our_algo_3(n, X[int(n/2+1):, other], L)
Delegate(a, axis) ==
  LET n == Len(a.X)
      other == 3 - axis
      g == our_algo_3(Suffix(Column(a.X, other), (n \div 2) + 1), a.L)
      s == Support(a.X, axis)
  IN  IF g.tag = "ValueError" THEN g
      ELSE [tag |-> "delegate", axis |-> axis, r |-> s.r, a |-> s.a, g |-> g]

\* a product of two floats, each a rational, inf or nan
Times(u, v) ==
  IF u.tag = "nan" \/ v.tag = "nan" THEN NaN
  ELSE IF u.tag = "inf" /\ v.tag = "inf" THEN Inf
  ELSE IF u.tag = "inf" THEN (IF v.num = 0 THEN NaN ELSE Inf)
  ELSE IF v.tag = "inf" THEN (IF u.num = 0 THEN NaN ELSE Inf)
  ELSE Rational(u.num * v.num, u.den * v.den)

\* lines 274, 284: (1/(R - r))*g(other) if inside [r, R] else 0
ApplyDelegate(cl, x, y) ==
  LET own == IF cl.axis = 1 THEN x ELSE y
      other == IF cl.axis = 1 THEN y ELSE x
      g == Apply3(cl.g, other)
  IN  IF own >= cl.r /\ own <= cl.r + cl.a
      THEN (IF g.tag = "IndexError" THEN g
            ELSE Times(IF cl.a = 0 THEN Inf ELSE Rational(Den, cl.a), g))
      ELSE Rational(0, 1)

\* lines 289-307: the grid and the two count matrices N_1, N_2 (counts in
\* quarters, as the entries of every matrix here)
Histograms(a) ==
  LET n == Len(a.X)
      s1 == Support(a.X, 1)
      s2 == Support(a.X, 2)
      m1 == FloorBins(s1.a, n, a.L)
      m2 == FloorBins(s2.a, n, a.L)
      E1 == Offsets(s1.r, s1.a, m1)
      E2 == Offsets(s2.r, s2.a, m2)
      d1 == Max2(E1[2] - E1[1], 0)
      d2 == Max2(E2[2] - E2[1], 0)
      Count(S, c) ==
        Cardinality({k \in S :
          /\ InBin(a.X[k + 1][1], s1.r, s1.a, m1, E1[1] + c[1] - 1)
          /\ InBin(a.X[k + 1][2], s2.r, s2.a, m2, E2[1] + c[2] - 1)})
  IN  [tag |-> "counted",
       r1 |-> s1.r, a1 |-> s1.a, m1 |-> m1, lo1 |-> E1[1], d1 |-> d1,
       r2 |-> s2.r, a2 |-> s2.a, m2 |-> m2, lo2 |-> E2[1], d2 |-> d2,
       N_1 |-> Matrix(d1, d2, [c \in Cells(d1, d2) |-> Den * Count(N1Slice(n), c)]),
       N_2 |-> Matrix(d1, d2, [c \in Cells(d1, d2) |-> Den * Count(N2Slice(n), c)])]

\* line 309: np.max(len(E_1), len(E_2)): the second argument is the axis of
\* the reduction, and a scalar has only the axes 0 and -1
np_max(v, axis) == IF axis = 0 THEN [tag |-> "ok", value |-> v] ELSE Raise("AxisError")

\* lines 309-320: P = our_algo(int(n/2), np.max(...), N_1, N_2, alpha, cstar, Cbar)
\* and the closure f_1 over it
Estimate(a, hs, g) ==
  LET d == np_max(hs.d1, hs.d2)
      P == our_algo([n |-> Len(a.X) \div 2, d |-> d.value, Y1 |-> hs.N_1, Y2 |-> hs.N_2,
                     alpha |-> a.alpha, cstar |-> a.cstar, Cbar |-> a.Cbar], g)
  IN  IF d.tag # "ok" THEN d
      ELSE IF P.tag # "ok" THEN P
      ELSE [tag |-> "grid", grid |-> hs, d |-> d.value, P |-> P]

\* lines 312-318: f_1(x, y) = (1/(h_1*h_2)) * sum of P[c1,c2] over the cells
\* whose half-open rectangle holds (x, y)
ApplyGrid(cl, x, y) ==
  LET hs == cl.grid
      Hits == {c \in Cells(hs.d1, hs.d2) :
                 /\ InBin(x, hs.r1, hs.a1, hs.m1, hs.lo1 + c[1] - 1)
                 /\ InBin(y, hs.r2, hs.a2, hs.m2, hs.lo2 + c[2] - 1)}
  IN  IF Hits = {} THEN Rational(0, 1)
      ELSE IF \E c \in Hits : c[1] > cl.P.rows \/ c[2] > cl.P.cols THEN Raise("IndexError")
      ELSE [tag |-> "density", sum |-> NumSum(cl.P.num, Hits), den |-> cl.P.den,
            delta |-> cl.P.delta,
            scale |-> Rational(hs.m1 * hs.m2 * Den * Den, hs.a1 * hs.a2)]

Apply2(cl, x, y) ==
  IF cl.tag = "delegate" THEN ApplyDelegate(cl, x, y) ELSE ApplyGrid(cl, x, y)

InitAlgo2 ==
  /\ \E n \in 1..MaxSamples : \E X \in [1..n -> PairVals] :
       args = [X |-> X, alpha |-> ScriptParams.alpha, L |-> ScriptParams.L,
               C |-> ScriptParams.C, Cbar |-> ScriptParams.Cbar,
               cstar |-> ScriptParams.cstar]
  /\ \E g \in GlobalDims : globals = [dims |-> g, h |-> NoValue]
  /\ pc = "our_algo_2"
  /\ res = NoValue
  /\ ret = NoValue
  /\ query = NoValue
  /\ val = NoValue

\* lines 264-268 on an empty calibration half
RaiseEmptyCalibration ==
  /\ pc = "our_algo_2"
  /\ Branch2(args) = "ValueError"
  /\ globals' = [globals EXCEPT !.h = Bandwidth(args)]
  /\ ret' = Raise("ValueError")
  /\ pc' = "raised"
  /\ UNCHANGED <<args, res, query, val>>

\* lines 264-274: axis 1 narrow, our_algo_3 on axis 2
DelegateAxis1 ==
  /\ pc = "our_algo_2"
  /\ Branch2(args) = "c1"
  /\ globals' = [globals EXCEPT !.h = Bandwidth(args)]
  /\ ret' = Delegate(args, 1)
  /\ pc' = IF Delegate(args, 1).tag = "delegate" THEN "returned" ELSE "raised"
  /\ UNCHANGED <<args, res, query, val>>

\* lines 264-284: axis 2 narrow, our_algo_3 on axis 1
DelegateAxis2 ==
  /\ pc = "our_algo_2"
  /\ Branch2(args) = "c2"
  /\ globals' = [globals EXCEPT !.h = Bandwidth(args)]
  /\ ret' = Delegate(args, 2)
  /\ pc' = IF Delegate(args, 2).tag = "delegate" THEN "returned" ELSE "raised"
  /\ UNCHANGED <<args, res, query, val>>

\* lines 264-309: the general case, line 309 raising (np.max, or our_algo);
\* res is the grid and the two count matrices built before it
RaiseInEstimate ==
  /\ pc = "our_algo_2"
  /\ Branch2(args) = "c3"
  /\ Estimate(args, Histograms(args), globals.dims).tag # "grid"
  /\ globals' = [globals EXCEPT !.h = Bandwidth(args)]
  /\ res' = Histograms(args)
  /\ ret' = Estimate(args, res', globals.dims)
  /\ pc' = "raised"
  /\ UNCHANGED <<args, query, val>>

\* lines 264-320: the general case returning f_1
ReturnGrid ==
  /\ pc = "our_algo_2"
  /\ Branch2(args) = "c3"
  /\ Estimate(args, Histograms(args), globals.dims).tag = "grid"
  /\ globals' = [globals EXCEPT !.h = Bandwidth(args)]
  /\ res' = Histograms(args)
  /\ ret' = Estimate(args, res', globals.dims)
  /\ pc' = "returned"
  /\ UNCHANGED <<args, query, val>>

\* the caller evaluates the returned density at a point
Evaluate2 ==
  /\ pc = "returned"
  /\ \E q \in QueryPairs :
       /\ query' = [x |-> q[1], y |-> q[2]]
       /\ val' = Apply2(ret, q[1], q[2])
  /\ pc' = "evaluated"
  /\ UNCHANGED <<args, globals, res, ret>>

NextAlgo2 ==
  \/ RaiseEmptyCalibration
  \/ DelegateAxis1
  \/ DelegateAxis2
  \/ RaiseInEstimate
  \/ ReturnGrid
  \/ Evaluate2

SpecAlgo2 == InitAlgo2 /\ [][NextAlgo2]_vars

(***************************************************************************)
(* Properties of our_algo_2                                                *)
(***************************************************************************)
\* two floats are the same value
SameValue(u, v) ==
  /\ u.tag = v.tag
  /\ u.tag = "num" => u.num * v.den = v.num * u.den

\* C6: in the general case our_algo_2 completes without raising, calls
\* our_algo with max(d1, d2), gets a d1 x d2 matrix P and returns f with
\* f(x,y) = P[i,j]/(h1*h2) for (x,y) in cell (i,j).
C6_GeneralCaseCompletes ==
  (pc # "our_algo_2" /\ Branch2(args) = "c3") =>
    /\ pc # "raised"
    /\ ret.tag = "grid"
    /\ ret.d = Max2(res.d1, res.d2)
    /\ ret.P.rows = res.d1 /\ ret.P.cols = res.d2
    /\ pc = "evaluated" =>
          \A c \in Cells(res.d1, res.d2) :
            (/\ InBin(query.x, res.r1, res.a1, res.m1, res.lo1 + c[1] - 1)
             /\ InBin(query.y, res.r2, res.a2, res.m2, res.lo2 + c[2] - 1))
            => /\ val.tag = "density"
               /\ val.sum = ret.P.num[c]
               /\ val.den = ret.P.den
               /\ SameValue(val.scale,
                            Rational(res.m1 * res.m2 * Den * Den, res.a1 * res.a2))

\* the value of the univariate estimator that a delegating call builds, at v
Univariate(axis, v) ==
  Apply3(our_algo_3(Suffix(Column(args.X, 3 - axis), (Len(args.X) \div 2) + 1), args.L), v)

\* C7: when an axis is narrow (axis 1 tested first), f(x,y) is g(other
\* coordinate)/(R - r) inside [r, R] and 0 outside, g the univariate
\* estimator of the other axis; with a constant axis (R = r) it is g itself.
C7_Delegation ==
  (pc = "evaluated" /\ Branch2(args) \in {"c1", "c2"}) =>
    LET axis == IF Branch2(args) = "c1" THEN 1 ELSE 2
        s == Support(args.X, axis)
        own == IF axis = 1 THEN query.x ELSE query.y
        other == IF axis = 1 THEN query.y ELSE query.x
        g == Univariate(axis, other)
    IN  /\ ret.tag = "delegate" /\ ret.axis = axis
        /\ IF own < s.r \/ own > s.r + s.a THEN SameValue(val, Rational(0, 1))
           ELSE IF s.a = 0 \/ g.tag # "num" THEN SameValue(val, g)
           ELSE SameValue(val, Rational(Den * g.num, s.a * g.den))

\* C10: the index sets the estimators use are pairwise disjoint and none
\* holds index n/2: calibration, N1 and N2 slices in the general case of
\* our_algo_2 (res then holds the two count matrices); the calibration and
\* delegated slices, and inside the delegated our_algo_3 its calibration and
\* estimation slices, otherwise.  N1 and N2 together count no sample twice
\* and none of the calibration half.
C10_SlicesDisjoint ==
  pc # "our_algo_2" =>
    LET n == Len(args.X)
        k == Cardinality(DelegatedSlice(n))
        cal == CalibrationSlice(n)
    IN  /\ res # NoValue =>
             /\ cal \cap N1Slice(n) = {}
             /\ cal \cap N2Slice(n) = {}
             /\ N1Slice(n) \cap N2Slice(n) = {}
             /\ (n \div 2) \notin (cal \cup N1Slice(n) \cup N2Slice(n))
             /\ SumOver(res.N_1.at, Cells(res.d1, res.d2))
                  + SumOver(res.N_2.at, Cells(res.d1, res.d2))
                  <= Den * Cardinality((0..(n - 1)) \ (cal \cup {n \div 2}))
        /\ res = NoValue =>
             /\ cal \cap DelegatedSlice(n) = {}
             /\ (n \div 2) \notin (cal \cup DelegatedSlice(n))
             /\ CalibrationSlice(k) \cap EstimationSlice(k) = {}
             /\ (k \div 2) \notin (CalibrationSlice(k) \cup EstimationSlice(k))

\* the general case with samples counted in N1 and in N2
C10_Witness ==
  /\ pc # "our_algo_2"
  /\ res # NoValue
  /\ SumOver(res.N_1.at, Cells(res.d1, res.d2)) > 0
  /\ SumOver(res.N_2.at, Cells(res.d1, res.d2)) > 0

====
